---- MODULE Spec2Model ----
(***************************************************************************)
(* A model of the parts of pyvista that its specification speaks of:       *)
(*   - the array wrapper, pyvista/core/validation/_array_wrapper.py        *)
(*     (specification SpecWrap),                                           *)
(*   - the plotting themes, pyvista/plotting/themes.py: Theme and the      *)
(*     global theme (SpecTheme), the default themes (SpecDefaults), the    *)
(*     enumerated options (SpecOptions),                                   *)
(*   - the lighting configuration _LightingConfig (SpecLighting),          *)
(*   - the axes actor, pyvista/plotting/axes_actor.py (SpecAxes),          *)
(*   - the duration extension of the documentation build,                  *)
(*     doc/source/duration_extension.py (SpecDuration, SpecMerge),         *)
(*   - functions known by their tests: pack_labels (SpecLabels), Color     *)
(*     (SpecColor), saving and reading a collection (SpecCollection).      *)
(* Each specification moves its own variables and leaves the others at     *)
(* their idle value.                                                       *)
(***************************************************************************)
EXTENDS Integers, Sequences, FiniteSets, TLC

VARIABLES
    heap,       \* array wrapper: the Python objects alive, by identity (index)
    wrappers,   \* array wrapper: the _ArrayLikeWrapper objects, by identity
    ret,        \* array wrapper: the last call, its argument and its outcome
    themes,     \* themes: the Theme objects, pyvista.global_theme and a user's theme
    shared,     \* themes: whether the two themes' _font slots hold one _Font object
    defaults,   \* themes: Theme._defaults, theme name -> name of the class attribute
    registered, \* themes: the class attributes register_default has set, name -> dict_
    tret,       \* themes: the last call, its arguments and its outcome
    lighting,   \* themes: a _LightingConfig object
    actor,      \* axes actor: the lengths and labels the vtkAxesActor holds
    reading_durations, \* duration extension: DurationDomain.data['reading_durations']
    started_at, \* duration extension: app.env.temp_data['started_at']
    now,        \* duration extension: time.monotonic()
    shown,      \* duration extension: the ranking the last build-finished logged
    hist,       \* duration extension: when each source was read, what the build noted
    calc        \* tests: the call of the function under test and its result

wrapVars == <<heap, wrappers, ret>>

\* what the array wrapper and the themes leave alone
restVars == <<actor, reading_durations, started_at, now, shown, hist, calc>>

themeVars == <<themes, shared, defaults, registered, tret, lighting, restVars>>

vars == <<heap, wrappers, ret, themes, shared, defaults, registered, tret, lighting,
          actor, reading_durations, started_at, now, shown, hist, calc>>

RestIdle ==
    /\ actor = <<>> /\ reading_durations = <<>> /\ started_at = <<>> /\ now = 0
    /\ shown = <<>> /\ hist = <<>> /\ calc = <<>>

(***************************************************************************)
(* Bounds of the model.                                                    *)
(***************************************************************************)
MaxLen == 2        \* longest sequence (and row) an input holds
MaxRows == 2       \* most rows of a nested input
MaxHeap == 2       \* objects alive at once: the input and the arrays made from it
MaxWrappers == 2   \* wrappers alive at once
MaxRegistered == 1 \* themes registered with register_default

(***************************************************************************)
(* Python values.  Every value is a record of one shape:                   *)
(*   kind  "num", "list", "tuple", "ndarray", "str" or "none"              *)
(*   ty    the type of a number or the dtype of an ndarray                 *)
(*   v     the magnitude of a number                                       *)
(*   items the items of a list, a tuple or an ndarray                      *)
(***************************************************************************)
Num(ty, v) == [kind |-> "num", ty |-> ty, v |-> v, items |-> <<>>]
List(items) == [kind |-> "list", ty |-> "", v |-> 0, items |-> items]
Tuple(items) == [kind |-> "tuple", ty |-> "", v |-> 0, items |-> items]
NdArray(ty, items) == [kind |-> "ndarray", ty |-> ty, v |-> 0, items |-> items]
Str == [kind |-> "str", ty |-> "str", v |-> 0, items |-> <<>>]
None == [kind |-> "none", ty |-> "NoneType", v |-> 0, items |-> <<>>]

SeqsUpTo(S, n) == UNION {[1..k -> S] : k \in 0..n}

\* float, int, bool: the builtin members of _NumberUnion
Numbers == {Num("int", 1), Num("float", 2), Num("bool", 1)}

Rows == {List(s) : s \in SeqsUpTo({Num("int", 1)}, MaxLen)}

Inputs1D == {List(s) : s \in SeqsUpTo(Numbers, MaxLen)}
                \cup {Tuple(s) : s \in SeqsUpTo({Num("bool", 0)}, MaxLen)}

Inputs2D == {List(s) : s \in SeqsUpTo(Rows, MaxRows) \ {<<>>}}
                \cup {Tuple(<<Tuple(<<Num("int", 1)>>), Tuple(<<Num("bool", 1)>>)>>),
                      List(<<List(<<Num("float", 2), Num("int", 1)>>)>>),
                      List(<<List(<<Num("bool", 0)>>), List(<<Num("float", 2)>>)>>)}

Inputs3D == {List(<<List(<<r>>)>>) : r \in Rows}
                \cup {List(<<List(<<r>>), List(<<>>)>>) : r \in Rows}

InputsNd == {NdArray("int", <<>>),
             NdArray("float", <<Num("float", 2)>>),
             NdArray("int", <<NdArray("int", <<Num("int", 1)>>)>>),
             List(<<NdArray("int", <<Num("int", 1)>>),
                    NdArray("float", <<Num("float", 2)>>)>>)}

Inputs == Numbers \cup Inputs1D \cup Inputs2D \cup Inputs3D \cup InputsNd
              \cup {None, List(<<Str>>), List(<<None>>)}

IsSeq(x) == x.kind \in {"list", "tuple"}

(***************************************************************************)
(* The type guards of pyvista.core._typing_core._type_guards.              *)
(***************************************************************************)
IsNumber(x) == x.kind = "num"

IsNumberSequence1D(x) ==
    /\ IsSeq(x)
    /\ \A i \in 1..Len(x.items) : IsNumber(x.items[i])

IsNumberSequence2D(x) ==
    /\ IsSeq(x)
    /\ Len(x.items) > 0
    /\ \A i \in 1..Len(x.items) :
          /\ IsNumberSequence1D(x.items[i])
          /\ Len(x.items[i].items) = Len(x.items[1].items)

(***************************************************************************)
(* _cast_to_numpy of pyvista.core.validation._cast_array: numpy's          *)
(* conversion of a nested sequence.  A ragged nesting raises ValueError,   *)
(* an array of objects (None) raises TypeError.                            *)
(***************************************************************************)
RECURSIVE ShapeOf(_)
ShapeOf(x) ==
    IF x.kind \in {"num", "str", "none"} THEN <<>>
    ELSE IF Len(x.items) = 0 THEN <<0>>
    ELSE <<Len(x.items)>> \o ShapeOf(x.items[1])

RECURSIVE Regular(_)
Regular(x) ==
    \/ x.kind \in {"num", "str", "none"}
    \/ \A i \in 1..Len(x.items) :
          Regular(x.items[i]) /\ ShapeOf(x.items[i]) = ShapeOf(x.items[1])

RECURSIVE Leaves(_)
Leaves(x) ==
    IF x.kind \in {"num", "str", "none"} THEN {x.ty}
    ELSE UNION {Leaves(x.items[i]) : i \in 1..Len(x.items)}

\* numpy's common dtype of the leaves; float64 for an empty array
CommonDtype(x) ==
    LET tys == Leaves(x) IN
    IF "NoneType" \in tys THEN "object"
    ELSE IF "str" \in tys THEN "str"
    ELSE IF tys = {} \/ "float" \in tys THEN "float"
    ELSE IF "int" \in tys THEN "int"
    ELSE "bool"

\* dtype(x) of a number: bool(x) is x != 0, int and float keep the magnitude
Convert(dtype, x) ==
    IF x.kind # "num" THEN x
    ELSE IF dtype = "bool" THEN Num("bool", IF x.v = 0 THEN 0 ELSE 1)
    ELSE Num(dtype, x.v)

RECURSIVE AsType(_, _)
AsType(x, dtype) ==
    IF x.kind \in {"num", "str", "none"} THEN Convert(dtype, x)
    ELSE NdArray(dtype, [i \in 1..Len(x.items) |-> AsType(x.items[i], dtype)])

CastRaises(x) ==
    IF ~Regular(x) THEN "ValueError"
    ELSE IF CommonDtype(x) = "object" THEN "TypeError"
    ELSE "none"

CastToNumpy(x) == AsType(x, CommonDtype(x))

(***************************************************************************)
(* References and wrapper objects.                                         *)
(***************************************************************************)
NoRef == <<"none", 0>>
ObjRef(i) == <<"obj", i>>
WrapRef(j) == <<"wrapper", j>>

Refs == {ObjRef(i) : i \in 1..Len(heap)} \cup {WrapRef(j) : j \in 1..Len(wrappers)}

BuiltinClasses == {"_NumberWrapper", "_Sequence1DWrapper", "_Sequence2DWrapper"}

\* the attributes __new__ sets: _array always, _dtype on the sequence wrappers
NewWrapper(cls, array) ==
    [cls |-> cls,
     array |-> array,
     dtype |-> IF cls \in {"_Sequence1DWrapper", "_Sequence2DWrapper"}
               THEN "None" ELSE "absent"]

Call(op, arg, val, dtype, exc) ==
    [op |-> op, arg |-> arg, val |-> val, dtype |-> dtype, exc |-> exc]

\* a handler that lets TypeError through
ExceptValueErrorOnly(exc) == exc

\* except (ValueError, TypeError): raise ValueError(...)
ExceptClause(exc) ==
    IF exc \in {"ValueError", "TypeError"} THEN "ValueError" ELSE exc

\* a guard chain without the 2D branch: nested sequences all go to numpy
WrapperClassNo2D(x) ==
    IF x.kind = "ndarray" THEN "_NumpyArrayWrapper"
    ELSE IF IsNumberSequence1D(x) THEN "_Sequence1DWrapper"
    ELSE IF IsNumber(x) THEN "_NumberWrapper"
    ELSE "cast"

\* the isinstance / type guard chain of __new__ for an input that is no wrapper
WrapperClass(x) ==
    IF x.kind = "ndarray" THEN "_NumpyArrayWrapper"
    ELSE IF IsNumberSequence1D(x) THEN "_Sequence1DWrapper"
    ELSE IF IsNumberSequence2D(x) THEN "_Sequence2DWrapper"
    ELSE IF IsNumber(x) THEN "_NumberWrapper"
    ELSE "cast"

\* an already-wrapped input that is initialised again
ReturnReinitialised(a) ==
    /\ ret' = Call("wrap", a, a, "", "none")
    /\ wrappers' = [wrappers EXCEPT ![a[2]] = NewWrapper(@.cls, @.array)]
    /\ UNCHANGED heap

\* if isinstance(_array, _ArrayLikeWrapper): return _array
ReturnAsIs(a) ==
    /\ ret' = Call("wrap", a, a, "", "none")
    /\ UNCHANGED <<heap, wrappers>>

(***************************************************************************)
(* _ArrayLikeWrapper(a): __new__.                                          *)
(***************************************************************************)
ArrayLikeWrapper(a) ==
    /\ a \in Refs
    /\ UNCHANGED themeVars
    /\ IF a[1] = "wrapper"
       THEN ReturnAsIs(a)
       ELSE LET x == heap[a[2]]
                cls == WrapperClass(x)
                exc == ExceptClause(CastRaises(x))
            IN  IF cls # "cast"
                THEN /\ Len(wrappers) < MaxWrappers
                     /\ wrappers' = Append(wrappers, NewWrapper(cls, a[2]))
                     /\ ret' = Call("wrap", a, WrapRef(Len(wrappers) + 1), "", "none")
                     /\ UNCHANGED heap
                ELSE IF exc # "none"
                THEN /\ ret' = Call("wrap", a, NoRef, "", exc)
                     /\ UNCHANGED <<heap, wrappers>>
                ELSE /\ Len(wrappers) < MaxWrappers
                     /\ Len(heap) < MaxHeap
                     /\ heap' = Append(heap, CastToNumpy(x))
                     /\ wrappers' = Append(wrappers,
                                          NewWrapper("_NumpyArrayWrapper", Len(heap) + 1))
                     /\ ret' = Call("wrap", a, WrapRef(Len(wrappers) + 1), "", "none")

(***************************************************************************)
(* The properties of a wrapper w (a record of wrappers).                   *)
(***************************************************************************)
RECURSIVE Product(_)
Product(s) == IF Len(s) = 0 THEN 1 ELSE Head(s) * Product(Tail(s))

RECURSIVE Chain(_)
Chain(rows) == IF Len(rows) = 0 THEN <<>> ELSE Head(rows).items \o Chain(Tail(rows))

RECURSIVE Flatten(_)
Flatten(x) ==
    IF x.kind \in {"num", "str", "none"} THEN <<x>>
    ELSE IF Len(x.items) = 0 THEN <<>>
    ELSE Flatten(x.items[1]) \o Flatten([x EXCEPT !.items = Tail(x.items)])

shape(w) ==
    CASE w.cls = "_NumberWrapper" -> <<>>
      [] w.cls = "_Sequence1DWrapper" -> <<Len(heap[w.array].items)>>
      [] w.cls = "_Sequence2DWrapper" ->
            <<Len(heap[w.array].items), Len(heap[w.array].items[1].items)>>
      [] OTHER -> ShapeOf(heap[w.array])

ndim(w) ==
    CASE w.cls = "_NumberWrapper" -> 0
      [] w.cls = "_Sequence1DWrapper" -> 1
      [] w.cls = "_Sequence2DWrapper" -> 2
      [] OTHER -> Len(ShapeOf(heap[w.array]))

\* a size that squares the number of rows
size_rows_squared(w) ==
    CASE w.cls = "_NumberWrapper" -> 1
      [] w.cls = "_Sequence1DWrapper" -> Len(heap[w.array].items)
      [] w.cls = "_Sequence2DWrapper" ->
            Len(heap[w.array].items) * Len(heap[w.array].items)
      [] OTHER -> Product(ShapeOf(heap[w.array]))

size(w) ==
    CASE w.cls = "_NumberWrapper" -> 1
      [] w.cls = "_Sequence1DWrapper" -> Len(heap[w.array].items)
      [] w.cls = "_Sequence2DWrapper" ->
            Len(heap[w.array].items) * Len(heap[w.array].items[1].items)
      [] OTHER -> Product(ShapeOf(heap[w.array]))

as_iterable(w) ==
    CASE w.cls = "_NumberWrapper" -> <<heap[w.array]>>
      [] w.cls = "_Sequence1DWrapper" -> heap[w.array].items
      [] w.cls = "_Sequence2DWrapper" -> Chain(heap[w.array].items)
      [] OTHER -> Flatten(heap[w.array])

\* _get_dtype_from_iterable
GetDtypeFromIterable(it) ==
    LET dtypes == {it[i].ty : i \in 1..Len(it)} IN
    IF "float" \in dtypes THEN "float"
    ELSE IF dtypes = {} THEN "float"
    ELSE IF dtypes \in {{"int"}, {"bool", "int"}} THEN "int"
    ELSE IF dtypes = {"bool"} THEN "bool"
    ELSE "TypeError"

\* the dtype property: the sequence wrappers compute it once and cache it
dtype(w) ==
    CASE w.cls = "_NumberWrapper" -> heap[w.array].ty
      [] w.cls \in {"_Sequence1DWrapper", "_Sequence2DWrapper"} ->
            IF w.dtype = "None" THEN GetDtypeFromIterable(as_iterable(w)) ELSE w.dtype
      [] OTHER -> heap[w.array].ty

GetDtype(j) ==
    /\ j \in 1..Len(wrappers)
    /\ UNCHANGED themeVars
    /\ LET w == wrappers[j]
           d == dtype(w)
       IN  /\ wrappers' = IF w.dtype = "None" /\ d # "TypeError"
                           THEN [wrappers EXCEPT ![j].dtype = d] ELSE wrappers
           /\ ret' = IF d = "TypeError"
                     THEN Call("dtype", WrapRef(j), NoRef, "", "TypeError")
                     ELSE Call("dtype", WrapRef(j), NoRef, d, "none")
    /\ UNCHANGED heap

DTypes == {"int", "float", "bool"}

\* sub_array.__class__(dtype(item) for item in sub_array), at either depth
RECURSIVE ConvertSeq(_, _)
ConvertSeq(x, d) ==
    IF x.kind = "num" THEN Convert(d, x)
    ELSE [x EXCEPT !.items = [i \in 1..Len(x.items) |-> ConvertSeq(x.items[i], d)]]

\* change_dtype: what the wrapper's _array becomes, and whether it is a new object
ChangedArray(w, d) ==
    CASE w.cls = "_NumberWrapper" -> Convert(d, heap[w.array])
      [] w.cls \in {"_Sequence1DWrapper", "_Sequence2DWrapper"} -> ConvertSeq(heap[w.array], d)
      [] OTHER -> AsType(heap[w.array], d)

ChangeKeepsObject(w, d) ==
    CASE w.cls = "_NumberWrapper" -> dtype(w) = d
      [] w.cls \in {"_Sequence1DWrapper", "_Sequence2DWrapper"} -> FALSE
      [] OTHER -> heap[w.array].ty = d

ChangeDtype(j, d) ==
    /\ j \in 1..Len(wrappers)
    /\ UNCHANGED themeVars
    /\ LET w == wrappers[j]
           cached == IF w.dtype = "absent" THEN "absent" ELSE d
       IN  IF ChangeKeepsObject(w, d)
           THEN UNCHANGED <<heap, wrappers>>
           ELSE /\ Len(heap) < MaxHeap
                /\ heap' = Append(heap, ChangedArray(w, d))
                /\ wrappers' = [wrappers EXCEPT ![j].array = Len(heap) + 1,
                                                ![j].dtype = cached]
    /\ ret' = Call("change_dtype", WrapRef(j), NoRef, d, "none")

\* copy_array: copy.deepcopy of a builtin (a number is its own copy), ndarray.copy
CopyArray(j) ==
    /\ j \in 1..Len(wrappers)
    /\ UNCHANGED themeVars
    /\ IF wrappers[j].cls = "_NumberWrapper"
       THEN UNCHANGED <<heap, wrappers>>
       ELSE /\ Len(heap) < MaxHeap
            /\ heap' = Append(heap, heap[wrappers[j].array])
            /\ wrappers' = [wrappers EXCEPT ![j].array = Len(heap) + 1]
    /\ ret' = Call("copy_array", WrapRef(j), NoRef, "", "none")

InitWrap ==
    /\ \E x \in Inputs : heap = <<x>>
    /\ wrappers = <<>>
    /\ ret = Call("init", NoRef, NoRef, "", "none")
    /\ themes = <<>> /\ shared = FALSE /\ defaults = <<>> /\ registered = <<>>
    /\ tret = <<>> /\ lighting = <<>>
    /\ RestIdle

NextWrap ==
    \/ \E a \in Refs : ArrayLikeWrapper(a)
    \/ \E j \in 1..MaxWrappers : GetDtype(j)
    \/ \E j \in 1..MaxWrappers, d \in DTypes : ChangeDtype(j, d)
    \/ \E j \in 1..MaxWrappers : CopyArray(j)

SpecWrap == InitWrap /\ [][NextWrap]_vars

(***************************************************************************)
(* Claims about the array wrapper, checked under SpecWrap.                 *)
(***************************************************************************)
NumberTypes == {"int", "float", "bool"}

\* what an input is, told from its structure alone
Is1DNumeric(x) == IsSeq(x) /\ ShapeOf(x) = <<Len(x.items)>> /\ Leaves(x) \subseteq NumberTypes
Is2DNumeric(x) ==
    /\ IsSeq(x) /\ Regular(x) /\ Len(ShapeOf(x)) = 2
    /\ Leaves(x) \subseteq NumberTypes
    /\ \A i \in 1..Len(x.items) : IsSeq(x.items[i])

HoldsSameObject(cls) ==
    /\ ret'.val = WrapRef(Len(wrappers) + 1)
    /\ wrappers' = Append(wrappers, NewWrapper(cls, ret'.arg[2]))
    /\ heap' = heap

HoldsNewArray(x) ==
    /\ ret'.val = WrapRef(Len(wrappers) + 1)
    /\ Len(wrappers') = Len(wrappers) + 1
    /\ wrappers'[Len(wrappers')].cls = "_NumpyArrayWrapper"
    /\ wrappers'[Len(wrappers')].array = Len(heap) + 1
    /\ heap' = Append(heap, heap'[Len(heap')])
    /\ heap'[Len(heap')].kind = "ndarray"
    /\ ShapeOf(heap'[Len(heap')]) = ShapeOf(x)
    /\ [i \in 1..Len(Flatten(x)) |-> Flatten(heap'[Len(heap')])[i].v]
         = [i \in 1..Len(Flatten(x)) |-> Flatten(x)[i].v]

\* C1: _ArrayLikeWrapper(x) returns an existing wrapper as it is; wraps a numpy
\* array, a 1D numeric sequence, a 2D nested numeric sequence or a number in the
\* wrapper of its kind, holding the very object passed, unmodified; and casts
\* every other input to a new numpy array held by a _NumpyArrayWrapper.
C1_WrapperKindByPrecedence ==
    [][(ret'.op = "wrap" /\ ret'.exc = "none") =>
        IF ret'.arg[1] = "wrapper" THEN ret'.val = ret'.arg
        ELSE LET x == heap[ret'.arg[2]] IN
             CASE x.kind = "ndarray" -> HoldsSameObject("_NumpyArrayWrapper")
               [] Is1DNumeric(x) -> HoldsSameObject("_Sequence1DWrapper")
               [] Is2DNumeric(x) -> HoldsSameObject("_Sequence2DWrapper")
               [] x.kind = "num" -> HoldsSameObject("_NumberWrapper")
               [] OTHER -> HoldsNewArray(x)]_vars

C1_Witness ==
    /\ ret.op = "wrap" /\ ret.exc = "none" /\ ret.arg[1] = "obj"
    /\ Is2DNumeric(heap[ret.arg[2]])
    /\ Len(heap[ret.arg[2]].items) = 2
    /\ wrappers[ret.val[2]].cls = "_Sequence2DWrapper"

\* C2: wrapping a wrapper returns that same wrapper and initialises nothing:
\* every wrapper keeps its _array and its cached dtype.
C2_WrappingIsIdempotent ==
    [][(ret'.op = "wrap" /\ ret'.arg[1] = "wrapper") =>
        /\ ret'.val = ret'.arg
        /\ ret'.exc = "none"
        /\ wrappers' = wrappers
        /\ heap' = heap]_vars

C2_Witness ==
    /\ ret.op = "wrap" /\ ret.arg[1] = "wrapper"
    /\ wrappers[ret.arg[2]].dtype \in DTypes
    /\ wrappers[ret.arg[2]].array # 1

\* C3: the shape, ndim and size of a wrapped scalar, 1D sequence or 2D nested
\* sequence describe the wrapped object: shape is its shape (), (n,) or (r, c),
\* ndim the length of shape, size the product of shape and the number of
\* elements as_iterable() yields.
C3_ShapeNdimSizeDescribeInput ==
    \A j \in 1..Len(wrappers) :
        LET w == wrappers[j] IN
        w.cls \in BuiltinClasses =>
            /\ Regular(heap[w.array])
            /\ shape(w) = ShapeOf(heap[w.array])
            /\ ndim(w) = Len(shape(w))
            /\ size(w) = Product(shape(w))
            /\ size(w) = Len(as_iterable(w))

C3_Witness ==
    \E j \in 1..Len(wrappers) :
        /\ wrappers[j].cls = "_Sequence2DWrapper"
        /\ shape(wrappers[j]) = <<1, 2>>
        /\ size(wrappers[j]) = 2

\* C4: when the input cannot be wrapped, because the conversion to numpy raises
\* ValueError or TypeError, _ArrayLikeWrapper raises ValueError and makes no
\* wrapper; no call lets a TypeError escape.
C4_InvalidInputRaisesValueError ==
    [][ret'.op = "wrap" =>
        /\ ret'.exc \in {"none", "ValueError"}
        /\ (/\ ret'.arg[1] = "obj"
            /\ ~Is1DNumeric(heap[ret'.arg[2]])
            /\ ~Is2DNumeric(heap[ret'.arg[2]])
            /\ heap[ret'.arg[2]].kind \notin {"num", "ndarray"}
            /\ CastRaises(heap[ret'.arg[2]]) \in {"ValueError", "TypeError"})
           => (/\ ret'.exc = "ValueError"
               /\ ret'.val = NoRef
               /\ wrappers' = wrappers
               /\ heap' = heap)]_vars

C4_Witness ==
    /\ ret.op = "wrap" /\ ret.exc = "ValueError" /\ ret.val = NoRef
    /\ CastRaises(heap[ret.arg[2]]) = "TypeError"

(***************************************************************************)
(* Plotting themes: pyvista/plotting/themes.py.                            *)
(*                                                                         *)
(* A value handed to a setter, or held by a dict, is a record of one       *)
(* shape: t its type, s its text, n its numbers.  A dict is a sequence of  *)
(* entries [key, val], in insertion order.                                 *)
(***************************************************************************)
VStr(s) == [t |-> "str", s |-> s, n |-> <<>>]
VBool(b) == [t |-> "bool", s |-> "", n |-> <<IF b THEN 1 ELSE 0>>]
VInt(i) == [t |-> "int", s |-> "", n |-> <<i>>]
VList(q) == [t |-> "list", s |-> "", n |-> q]
VNone == [t |-> "NoneType", s |-> "", n |-> <<>>]
\* a dict of one entry k: i, the value of a sub-configuration key such as 'font'
VDict(k, i) == [t |-> "dict", s |-> k, n |-> <<i>>]
\* a Theme object, by its identity
VTheme(id) == [t |-> "Theme", s |-> id, n |-> <<>>]

Entry(k, v) == [key |-> k, val |-> v]

Result(exc, th) == [exc |-> exc, th |-> th]

\* bool(value)
Truth(v) ==
    CASE v.t \in {"bool", "int"} -> v.n[1] # 0
      [] v.t = "str" -> v.s # ""
      [] v.t \in {"list", "dict"} -> Len(v.n) > 0
      [] OTHER -> v.t = "Theme"

\* _Font.__init__
FontInit == [size |-> 12]

\* setattr(font, key, value) through the properties of _Font
FontSetAttr(f, v) ==
    IF v.s = "size"
    THEN Result("none", [f EXCEPT !.size = v.n[1]])
    ELSE IF v.s \in {"title_size", "label_size", "color", "family", "fmt"}
    THEN Result("none", f)
    ELSE Result("AttributeError", f)

\* Theme.__init__: the slots the model follows, the font by value; the
\* volume_mapper is the one of a system that is not Windows (os.name # 'nt')
ThemeInit ==
    [cls |-> "Theme",
     name |-> "default",
     window_size |-> <<1024, 768>>,
     show_edges |-> FALSE,
     anti_aliasing |-> "msaa",
     colorbar_orientation |-> "horizontal",
     volume_mapper |-> "smart",
     font |-> FontInit]

\* Theme.window_size.setter, given a list of numbers or a value that has no
\* length (a number, None), of which len() is a TypeError
WindowSizeSetter(th, v) ==
    IF v.t # "list" THEN Result("TypeError", th)
    ELSE IF Len(v.n) # 2 THEN Result("ValueError", th)
    ELSE IF v.n[1] < 0 \/ v.n[2] < 0 THEN Result("ValueError", th)
    ELSE Result("none", [th EXCEPT !.window_size = v.n])

\* Theme.anti_aliasing.setter
AntiAliasingSetter(th, v) ==
    IF v.t = "str"
    THEN IF v.s \notin {"ssaa", "msaa", "fxaa"} THEN Result("ValueError", th)
         ELSE Result("none", [th EXCEPT !.anti_aliasing = v.s])
    ELSE IF v.t # "NoneType" THEN Result("TypeError", th)
    ELSE Result("none", [th EXCEPT !.anti_aliasing = "None"])

\* Theme.colorbar_orientation.setter
ColorbarOrientationSetter(th, v) ==
    IF v.t # "str" \/ v.s \notin {"vertical", "horizontal"} THEN Result("ValueError", th)
    ELSE Result("none", [th EXCEPT !.colorbar_orientation = v.s])

\* a volume_mapper setter that assigns every string
VolumeMapperAnyString(th, v) ==
    IF v.t # "str" THEN Result("ValueError", th)
    ELSE Result("none", [th EXCEPT !.volume_mapper = v.s])

\* Theme.volume_mapper.setter
VolumeMapperSetter(th, v) ==
    IF v.t # "str" \/ v.s \notin {"fixed_point", "gpu", "open_gl", "smart"}
    THEN Result("ValueError", th)
    ELSE Result("none", [th EXCEPT !.volume_mapper = v.s])

\* the public properties of Theme the model follows
ThemeKeys ==
    {"name", "window_size", "show_edges", "anti_aliasing", "colorbar_orientation",
     "volume_mapper", "font"}

\* setattr(theme, key, value) for a key that is no sub-configuration
SetAttr(th, key, v) ==
    CASE key = "name" -> Result("none", [th EXCEPT !.name = v.s])
      [] key = "show_edges" -> Result("none", [th EXCEPT !.show_edges = Truth(v)])
      [] key = "window_size" -> WindowSizeSetter(th, v)
      [] key = "anti_aliasing" -> AntiAliasingSetter(th, v)
      [] key = "colorbar_orientation" -> ColorbarOrientationSetter(th, v)
      [] key = "volume_mapper" -> VolumeMapperSetter(th, v)
      [] OTHER -> Result("AttributeError", th)

\* one entry of from_dict ("from_dict") or update_from_dict ("update"): the
\* 'font' entry builds a new _Font from the dict, or updates the one in place
ApplyEntry(th, e, mode) ==
    IF e.key \notin ThemeKeys THEN Result("AttributeError", th)
    ELSE IF e.key = "font"
    THEN IF e.val.t # "dict" THEN Result("AttributeError", th)
         ELSE LET r == FontSetAttr(IF mode = "update" THEN th.font ELSE FontInit, e.val)
              IN  Result(r.exc, [th EXCEPT !.font = r.th])
    ELSE SetAttr(th, e.key, e.val)

RECURSIVE ApplyDict(_, _, _)
ApplyDict(r, d, mode) ==
    IF Len(d) = 0 \/ r.exc # "none" THEN r
    ELSE ApplyDict(ApplyEntry(r.th, Head(d), mode), Tail(d), mode)

\* cls(): Theme.__init__, then what the deprecated subclasses assign
Construct(cls) ==
    CASE cls = "DocumentProTheme" ->
            [ThemeInit EXCEPT !.cls = cls, !.name = "document", !.font = [size |-> 18],
                              !.anti_aliasing = "ssaa"]
      [] OTHER -> [ThemeInit EXCEPT !.cls = cls]

ThemeClasses == {"Theme", "DocumentProTheme"}

\* _ThemeConfig.from_dict
FromDict(cls, d) == ApplyDict(Result("none", Construct(cls)), d, "from_dict")

\* the dicts of the class methods dark_theme, paraview_theme, document_theme and
\* testing_theme
DarkDict ==
    <<Entry("name", VStr("dark")), Entry("font", VDict("color", 0)),
      Entry("show_edges", VBool(FALSE))>>
ParaviewDict ==
    <<Entry("name", VStr("paraview")), Entry("font", VDict("label_size", 16)),
      Entry("show_edges", VBool(FALSE))>>
DocumentDict ==
    <<Entry("name", VStr("document")), Entry("font", VDict("size", 18)),
      Entry("show_edges", VBool(FALSE))>>
DocumentProDict == <<Entry("anti_aliasing", VStr("ssaa"))>>
TestingDict ==
    <<Entry("name", VStr("testing")), Entry("window_size", VList(<<400, 400>>))>>

\* getattr(cls, attr)(): a class method of Theme, or what register_default set
CallClassMethod(cls, attr) ==
    IF attr \in DOMAIN registered THEN FromDict(cls, registered[attr])
    ELSE CASE attr = "dark_theme" -> FromDict(cls, DarkDict)
           [] attr = "paraview_theme" -> FromDict(cls, ParaviewDict)
           [] attr = "document_theme" -> FromDict(cls, DocumentDict)
           [] attr = "document_pro_theme" ->
                ApplyDict(FromDict(cls, DocumentDict), DocumentProDict, "update")
           [] attr = "testing_theme" -> FromDict(cls, TestingDict)
           [] attr = "vtk_theme" -> Result("none", Construct(cls))
           [] OTHER -> Result("AttributeError", Construct(cls))

\* _ThemeConfig.from_default
FromDefault(cls, name) ==
    IF name \notin DOMAIN defaults THEN Result("KeyError", Construct(cls))
    ELSE CallClassMethod(cls, defaults[name])

\* Theme._defaults as the class statement sets it
DefaultsInit ==
    [n \in {"dark", "default", "document", "document_pro", "paraview", "testing", "vtk"} |->
        CASE n = "dark" -> "dark_theme"
          [] n = "default" -> "document_theme"
          [] n = "document" -> "document_theme"
          [] n = "document_pro" -> "document_pro_theme"
          [] n = "paraview" -> "paraview_theme"
          [] n = "testing" -> "testing_theme"
          [] n = "vtk" -> "vtk_theme"]


(***************************************************************************)
(* The theme objects: pyvista.global_theme and a theme a script holds.     *)
(* load_theme assigns the source's slots to the target, so afterwards the  *)
(* two themes hold one _Font object, until one of them takes a new _Font.  *)
(***************************************************************************)
ThemeIds == {"global", "user"}

\* Theme.__slots__ without the font, which load_theme would then leave alone
SlotsWithoutFont ==
    {"name", "window_size", "show_edges", "anti_aliasing", "colorbar_orientation",
     "volume_mapper"}

\* Theme.__slots__, as far as the model follows them
ThemeSlots ==
    {"name", "window_size", "show_edges", "anti_aliasing", "colorbar_orientation",
     "volume_mapper", "font"}

\* _ThemeConfig.__eq__: the slots of other, one by one
Eq(self, other) == \A k \in ThemeSlots : self[k] = other[k]

\* the last call: the operation, the theme it was called on, its argument, the
\* dict it was given and the exception it raised, "none" when it returned
TCall(op, target, arg, d, exc) ==
    [op |-> op, target |-> target, arg |-> arg, d |-> d, exc |-> exc]

\* for attr_name in Theme.__slots__: setattr(self, attr_name, getattr(theme, attr_name))
CopySlots(target, source) ==
    [k \in DOMAIN target |-> IF k \in ThemeSlots THEN source[k] ELSE target[k]]

\* target.load_theme(source) for a Theme object source: the font slot of the
\* target now holds the source's _Font
LoadObject(t, src) ==
    /\ themes' = [themes EXCEPT ![t] = CopySlots(themes[t], themes[src])]
    /\ shared' = (shared \/ ("font" \in ThemeSlots /\ t # src))

\* target.load_theme(theme) for a theme that was just built: its _Font is new
LoadBuilt(t, tv) ==
    /\ themes' = [themes EXCEPT ![t] = CopySlots(themes[t], tv)]
    /\ shared' = (shared /\ "font" \notin ThemeSlots)

\* what a call on theme t leaves: its own slots, and its _Font, changed in place
Store(t, th) ==
    /\ themes' = [u \in ThemeIds |->
                    IF u = t THEN th
                    ELSE IF shared THEN [themes[u] EXCEPT !.font = th.font]
                    ELSE themes[u]]
    /\ shared' = shared

\* the contents a theme file may have, for load_theme(filename)
FileDicts ==
    {<<Entry("name", VStr("my_theme")), Entry("show_edges", VBool(TRUE))>>,
     <<Entry("window_size", VList(<<400>>))>>}

\* Theme.load_theme
LoadTheme(t, arg) ==
    /\ t \in ThemeIds
    /\ UNCHANGED <<defaults, registered, lighting>>
    /\ UNCHANGED <<wrapVars, restVars>>
    /\ IF arg.t = "str"
       THEN \/ /\ tret' = TCall("load_theme", t, arg, <<>>, "FileNotFoundError")
               /\ UNCHANGED <<themes, shared>>
            \/ \E d \in FileDicts :
                 LET r == FromDict("Theme", d) IN
                 /\ tret' = TCall("load_theme", t, arg, <<>>, r.exc)
                 /\ IF r.exc = "none" THEN LoadBuilt(t, r.th)
                    ELSE UNCHANGED <<themes, shared>>
       ELSE IF arg.t # "Theme"
       THEN /\ tret' = TCall("load_theme", t, arg, <<>>, "TypeError")
            /\ UNCHANGED <<themes, shared>>
       ELSE /\ tret' = TCall("load_theme", t, arg, <<>>, "none")
            /\ LoadObject(t, arg.s)

\* a str.lower() that leaves the name as it was given
lower_as_given(s) == s

\* str.lower() of the names the model passes to set_plot_theme
lower(s) ==
    CASE s = "DARK" -> "dark"
      [] OTHER -> s

\* set_plot_theme
SetPlotTheme(arg) ==
    /\ UNCHANGED <<defaults, registered, lighting>>
    /\ UNCHANGED <<wrapVars, restVars>>
    /\ IF arg.t = "str"
       THEN LET r == FromDefault("Theme", lower(arg.s)) IN
            IF r.exc = "KeyError"
            THEN /\ tret' = TCall("set_plot_theme", "global", arg, <<>>, "ValueError")
                 /\ UNCHANGED <<themes, shared>>
            ELSE IF r.exc # "none"
            THEN /\ tret' = TCall("set_plot_theme", "global", arg, <<>>, r.exc)
                 /\ UNCHANGED <<themes, shared>>
            ELSE /\ tret' = TCall("set_plot_theme", "global", arg, <<>>, "none")
                 /\ LoadBuilt("global", r.th)
       ELSE IF arg.t = "Theme"
       THEN /\ tret' = TCall("set_plot_theme", "global", arg, <<>>, "none")
            /\ LoadObject("global", arg.s)
       ELSE /\ tret' = TCall("set_plot_theme", "global", arg, <<>>, "TypeError")
            /\ UNCHANGED <<themes, shared>>

\* Theme.restore_defaults: self.load_theme(self.from_default('default'))
RestoreDefaults(t) ==
    /\ t \in ThemeIds
    /\ UNCHANGED <<defaults, registered, lighting>>
    /\ UNCHANGED <<wrapVars, restVars>>
    /\ LET r == FromDefault(themes[t].cls, "default") IN
       /\ tret' = TCall("restore_defaults", t, VNone, <<>>, r.exc)
       /\ IF r.exc = "none" THEN LoadBuilt(t, r.th) ELSE UNCHANGED <<themes, shared>>

\* a register_default that sets the class attribute and forgets _defaults
RegisterAttributeOnly(name, d) ==
    /\ Cardinality(DOMAIN registered \cup {name}) <= MaxRegistered
    /\ registered' = (name :> d) @@ registered
    /\ tret' = TCall("register_default", "", VStr(name), d, "none")
    /\ UNCHANGED <<themes, shared, defaults, lighting>>
    /\ UNCHANGED <<wrapVars, restVars>>

\* Theme.register_default(name, dict_)
RegisterDefault(name, d) ==
    /\ Cardinality(DOMAIN registered \cup {name}) <= MaxRegistered
    /\ registered' = (name :> d) @@ registered
    /\ defaults' = (name :> name) @@ defaults
    /\ tret' = TCall("register_default", "", VStr(name), d, "none")
    /\ UNCHANGED <<themes, shared, lighting>>
    /\ UNCHANGED <<wrapVars, restVars>>

\* user = cls(): a new theme of class Theme or of a deprecated subclass
NewTheme(cls) ==
    /\ tret' = TCall("new", "user", VStr(cls), <<>>, "none")
    /\ themes' = [themes EXCEPT !["user"] = Construct(cls)]
    /\ shared' = FALSE
    /\ UNCHANGED <<defaults, registered, lighting>>
    /\ UNCHANGED <<wrapVars, restVars>>

\* user = Theme.from_default(name)
UserFromDefault(name) ==
    /\ LET r == FromDefault("Theme", name) IN
       /\ tret' = TCall("from_default", "user", VStr(name), <<>>, r.exc)
       /\ IF r.exc # "none" THEN UNCHANGED <<themes, shared>>
          ELSE /\ themes' = [themes EXCEPT !["user"] = r.th]
               /\ shared' = FALSE
    /\ UNCHANGED <<defaults, registered, lighting>>
    /\ UNCHANGED <<wrapVars, restVars>>

\* theme.<key> = value
SetProperty(t, key, v) ==
    /\ t \in ThemeIds
    /\ LET r == SetAttr(themes[t], key, v) IN
       /\ tret' = TCall(key, t, v, <<>>, r.exc)
       /\ Store(t, r.th)
    /\ UNCHANGED <<defaults, registered, lighting>>
    /\ UNCHANGED <<wrapVars, restVars>>

\* theme.update_from_dict(d): the entries before one that raises stay applied
UpdateFromDict(t, d) ==
    /\ t \in ThemeIds
    /\ LET r == ApplyDict(Result("none", themes[t]), d, "update") IN
       /\ tret' = TCall("update_from_dict", t, VNone, <<>>, r.exc)
       /\ Store(t, r.th)
    /\ UNCHANGED <<defaults, registered, lighting>>
    /\ UNCHANGED <<wrapVars, restVars>>

(***************************************************************************)
(* The inputs of the theme operations.                                     *)
(***************************************************************************)
ThemeNames ==
    {"default", "document", "document_pro", "dark", "paraview", "vtk", "testing"}

PlotThemeArgs ==
    {VStr(n) : n \in ThemeNames \cup {"DARK", "my_theme", "nonsense"}}
        \cup {VTheme("user"), VInt(1), VNone}

LoadArgs == {VTheme(t) : t \in ThemeIds} \cup {VStr("my_theme.json"), VInt(1)}

RegNames == {"my_theme", "dark", "dark_theme"}

RegDicts ==
    {<<Entry("show_edges", VBool(TRUE))>>,
     <<Entry("window_size", VList(<<400, 400>>)), Entry("font", VDict("size", 20))>>}

UpdateDicts ==
    {<<Entry("window_size", VList(<<400, 400>>)), Entry("font", VDict("size", 20))>>,
     <<Entry("show_edges", VInt(1)), Entry("window_size", VList(<<400>>))>>}

WindowSizes ==
    {VList(<<0, 768>>), VList(<<-1, 400>>), VList(<<400, -1>>), VList(<<400>>), VInt(400)}

\* pyvista.global_theme is the document theme; the script holds a Theme()
InitTheme ==
    /\ themes = [t \in ThemeIds |->
                    IF t = "global" THEN FromDict("Theme", DocumentDict).th
                    ELSE ThemeInit]
    /\ shared = FALSE
    /\ defaults = DefaultsInit
    /\ registered = <<>>
    /\ tret = TCall("init", "", VNone, <<>>, "none")
    /\ lighting = <<>>
    /\ heap = <<>> /\ wrappers = <<>> /\ ret = <<>>
    /\ RestIdle

\* the global theme and a script's theme, loaded, assigned to and restored
NextTheme ==
    \/ \E arg \in {VStr("dark"), VTheme("user")} : SetPlotTheme(arg)
    \/ \E t \in ThemeIds, arg \in LoadArgs : LoadTheme(t, arg)
    \/ \E t \in ThemeIds : RestoreDefaults(t)
    \/ \E cls \in ThemeClasses : NewTheme(cls)
    \/ \E v \in WindowSizes : SetProperty("user", "window_size", v)
    \/ \E d \in UpdateDicts : UpdateFromDict("user", d)

SpecTheme == InitTheme /\ [][NextTheme]_vars

\* the default themes: registered, built and made the global theme
NextDefaults ==
    \/ \E n \in RegNames, d \in RegDicts : RegisterDefault(n, d)
    \/ \E n \in ThemeNames \cup RegNames \cup {"nonsense"} : UserFromDefault(n)
    \/ \E arg \in PlotThemeArgs : SetPlotTheme(arg)

SpecDefaults == InitTheme /\ [][NextDefaults]_vars

(***************************************************************************)
(* The statements about the themes.                                        *)
(***************************************************************************)
\* the names the model passes to set_plot_theme, in lower case
LowerCased(s) == IF s = "DARK" THEN "dark" ELSE s

GlobalUnchanged == themes' = themes /\ shared' = shared

\* C5: set_plot_theme(theme) lower-cases a string and, when it names a default
\* theme, overwrites the global theme with a newly built theme of that name; an
\* unknown name raises ValueError and a value that is neither a string nor a
\* Theme raises TypeError, both leaving the global theme unchanged; a Theme
\* instance is loaded into the global theme.
C5_SetPlotThemeByNameOrInstance ==
    [][tret'.op = "set_plot_theme" =>
        LET a == tret'.arg
            n == LowerCased(a.s)
        IN  /\ ThemeNames \subseteq DOMAIN defaults
            /\ CASE a.t = "str" /\ n \in DOMAIN defaults ->
                        /\ tret'.exc = "none"
                        /\ Eq(themes'["global"], FromDefault("Theme", n).th)
                        /\ themes'["global"].cls = "Theme"
                        /\ themes'["user"] = themes["user"]
                        /\ ~shared'
                 [] a.t = "str" /\ n \notin DOMAIN defaults ->
                        tret'.exc = "ValueError" /\ GlobalUnchanged
                 [] a.t = "Theme" ->
                        /\ tret'.exc = "none"
                        /\ Eq(themes'["global"], themes[a.s])
                        /\ themes'["user"] = themes["user"]
                        /\ shared'
                 [] OTHER -> tret'.exc = "TypeError" /\ GlobalUnchanged]_vars

C5_Witness ==
    /\ tret.op = "set_plot_theme" /\ tret.arg = VStr("DARK") /\ tret.exc = "none"
    /\ themes["global"].name = "dark"
    /\ themes["user"].name = "paraview"

\* C6: target.load_theme(source) with a Theme source leaves every slot of the
\* target with the source's value, so that target == source, whatever the
\* target held; an argument that is neither a str nor a Theme raises TypeError
\* and changes no attribute.
C6_LoadThemeOverwritesTarget ==
    [][tret'.op = "load_theme" =>
        LET t == tret'.target
            a == tret'.arg
        IN  /\ a.t = "Theme" =>
                /\ tret'.exc = "none"
                /\ themes'[t].name = themes[a.s].name
                /\ themes'[t].window_size = themes[a.s].window_size
                /\ themes'[t].show_edges = themes[a.s].show_edges
                /\ themes'[t].anti_aliasing = themes[a.s].anti_aliasing
                /\ themes'[t].colorbar_orientation = themes[a.s].colorbar_orientation
                /\ themes'[t].volume_mapper = themes[a.s].volume_mapper
                /\ themes'[t].font = themes[a.s].font
                /\ themes'[t].cls = themes[t].cls
                /\ Eq(themes'[t], themes'[a.s])
                /\ \A u \in ThemeIds \ {t} : themes'[u] = themes[u]
            /\ a.t \notin {"str", "Theme"} =>
                tret'.exc = "TypeError" /\ GlobalUnchanged]_vars

C6_Witness ==
    /\ tret.op = "load_theme" /\ tret.target = "global" /\ tret.arg = VTheme("user")
    /\ themes["global"].window_size = <<0, 768>>
    /\ themes["global"].font.size = 20
    /\ themes["global"].name = "default"

\* C7: after restore_defaults() the theme equals a newly built
\* Theme.from_default('default'), whatever was assigned to it, updated or loaded
\* into it before.
C7_RestoreDefaultsEqualsDefaultTheme ==
    (tret.op = "restore_defaults" /\ tret.exc = "none") =>
        Eq(themes[tret.target], FromDefault("Theme", "default").th)

\* C8: after Theme.register_default(name, dict_) the name is one of
\* Theme.defaults(), and Theme.<name>() and Theme.from_default(name) both return
\* what Theme.from_dict(dict_) returns; registering {"show_edges": True} gives
\* a theme whose show_edges is True.
C8_RegisteredDefaultBuildsDict ==
    tret.op = "register_default" =>
        LET name == tret.arg.s
            built == FromDict("Theme", tret.d)
        IN  /\ tret.exc = "none"
            /\ name \in DOMAIN defaults
            /\ built.exc = "none"
            /\ FromDefault("Theme", name) = built
            /\ CallClassMethod("Theme", name) = built
            /\ tret.d = <<Entry("show_edges", VBool(TRUE))>> =>
                   FromDefault("Theme", name).th.show_edges = TRUE

C8_Witness ==
    /\ tret.op = "register_default" /\ tret.arg = VStr("my_theme")
    /\ tret.d = <<Entry("show_edges", VBool(TRUE))>>
    /\ "my_theme" \in DOMAIN defaults
    /\ FromDefault("Theme", "my_theme").th.show_edges = TRUE

\* C10: assigning a list to Theme.window_size succeeds only when the list has
\* length 2 and both sizes are positive; every other list raises ValueError and
\* leaves window_size unchanged.
C10_WindowSizeLengthTwoAndPositive ==
    [][(tret'.op = "window_size" /\ tret'.arg.t = "list") =>
        LET t == tret'.target
            v == tret'.arg.n
        IN  IF Len(v) = 2 /\ (\A i \in 1..Len(v) : v[i] > 0)
            THEN tret'.exc = "none" /\ themes'[t].window_size = v
            ELSE tret'.exc = "ValueError" /\ themes'[t] = themes[t]]_vars

(***************************************************************************)
(* The lighting configuration: _LightingConfig of pyvista/plotting/        *)
(* themes.py.  A number is held in hundredths: 50 is 0.5, 12800 is 128.    *)
(***************************************************************************)
\* _check_range(value, rng, name): a value below rng[0] or above rng[1] raises
CheckRange(v, lo, hi) ==
    IF v.n[1] < lo \/ v.n[1] > hi THEN "ValueError" ELSE "none"

\* _LightingConfig.__init__ before the keyword arguments
LightingInit ==
    [metallic |-> 0, roughness |-> 50, ambient |-> 0, diffuse |-> 100,
     specular |-> 0, specular_power |-> 10000]

\* _LightingConfig.metallic.setter
metallic(l, v) ==
    LET e == CheckRange(v, 0, 100)
    IN  Result(e, IF e = "none" THEN [l EXCEPT !.metallic = v.n[1]] ELSE l)

\* _LightingConfig.roughness.setter
roughness(l, v) ==
    LET e == CheckRange(v, 0, 100)
    IN  Result(e, IF e = "none" THEN [l EXCEPT !.roughness = v.n[1]] ELSE l)

\* _LightingConfig.ambient.setter
ambient(l, v) ==
    LET e == CheckRange(v, 0, 100)
    IN  Result(e, IF e = "none" THEN [l EXCEPT !.ambient = v.n[1]] ELSE l)

\* _LightingConfig.diffuse.setter
diffuse(l, v) ==
    LET e == CheckRange(v, 0, 100)
    IN  Result(e, IF e = "none" THEN [l EXCEPT !.diffuse = v.n[1]] ELSE l)

\* _LightingConfig.specular.setter
specular(l, v) ==
    LET e == CheckRange(v, 0, 100)
    IN  Result(e, IF e = "none" THEN [l EXCEPT !.specular = v.n[1]] ELSE l)

\* a specular_power setter that assigns before it checks the range
specular_power_assign_first(l, v) ==
    Result(CheckRange(v, 0, 12800), [l EXCEPT !.specular_power = v.n[1]])

\* _LightingConfig.specular_power.setter
specular_power(l, v) ==
    LET e == CheckRange(v, 0, 12800)
    IN  Result(e, IF e = "none" THEN [l EXCEPT !.specular_power = v.n[1]] ELSE l)

\* setattr(lighting, key, value) through the properties of _LightingConfig
LightingSetAttr(l, key, v) ==
    CASE key = "metallic" -> metallic(l, v)
      [] key = "roughness" -> roughness(l, v)
      [] key = "ambient" -> ambient(l, v)
      [] key = "diffuse" -> diffuse(l, v)
      [] key = "specular" -> specular(l, v)
      [] key = "specular_power" -> specular_power(l, v)
      [] OTHER -> Result("AttributeError", l)

\* the entries of a dict or of the keyword arguments, in order, until one raises
RECURSIVE LightingApply(_, _)
LightingApply(r, d) ==
    IF Len(d) = 0 \/ r.exc # "none" THEN r
    ELSE LightingApply(LightingSetAttr(r.th, Head(d).key, Head(d).val), Tail(d))

\* lighting.<key> = value
SetLighting(key, v) ==
    /\ LET r == LightingSetAttr(lighting, key, v) IN
       /\ tret' = TCall("lighting.set", key, v, <<>>, r.exc)
       /\ lighting' = r.th
    /\ UNCHANGED <<themes, shared, defaults, registered>>
    /\ UNCHANGED <<wrapVars, restVars>>

\* lighting = _LightingConfig(**kwargs): __init__ and _handle_kwargs; when a
\* keyword argument is rejected there is no new object
NewLighting(kwargs) ==
    /\ LET r == LightingApply(Result("none", LightingInit), kwargs) IN
       /\ tret' = TCall("lighting.new", "", VNone, kwargs, r.exc)
       /\ lighting' = IF r.exc = "none" THEN r.th ELSE lighting
    /\ UNCHANGED <<themes, shared, defaults, registered>>
    /\ UNCHANGED <<wrapVars, restVars>>

\* lighting = _LightingConfig.from_dict(d)
LightingFromDict(d) ==
    /\ LET r == LightingApply(Result("none", LightingInit), d) IN
       /\ tret' = TCall("lighting.from_dict", "", VNone, d, r.exc)
       /\ lighting' = IF r.exc = "none" THEN r.th ELSE lighting
    /\ UNCHANGED <<themes, shared, defaults, registered>>
    /\ UNCHANGED <<wrapVars, restVars>>

\* lighting.update_from_dict(d): the entries before one that raises stay applied
LightingUpdateFromDict(d) ==
    /\ LET r == LightingApply(Result("none", lighting), d) IN
       /\ tret' = TCall("lighting.update_from_dict", "", VNone, d, r.exc)
       /\ lighting' = r.th
    /\ UNCHANGED <<themes, shared, defaults, registered>>
    /\ UNCHANGED <<wrapVars, restVars>>

LightingKeys ==
    {"metallic", "roughness", "ambient", "diffuse", "specular", "specular_power"}

LightingValues == {VInt(n) : n \in {-1, 0, 100, 101, 12800, 12801}}

LightingDicts ==
    {<<Entry("metallic", VInt(100)), Entry("specular_power", VInt(12800))>>,
     <<Entry("roughness", VInt(100)), Entry("ambient", VInt(101))>>,
     <<Entry("diffuse", VInt(0)), Entry("specular_power", VInt(12801))>>,
     <<Entry("specular", VInt(-1))>>,
     <<Entry("nonsense", VInt(0))>>}

InitLighting ==
    /\ lighting = LightingInit
    /\ tret = TCall("init", "", VNone, <<>>, "none")
    /\ themes = <<>> /\ shared = FALSE /\ defaults = <<>> /\ registered = <<>>
    /\ heap = <<>> /\ wrappers = <<>> /\ ret = <<>>
    /\ RestIdle

NextLighting ==
    \/ \E key \in LightingKeys, v \in LightingValues : SetLighting(key, v)
    \/ \E kwargs \in LightingDicts : NewLighting(kwargs)
    \/ \E d \in LightingDicts : LightingFromDict(d)
    \/ \E d \in LightingDicts : LightingUpdateFromDict(d)

SpecLighting == InitLighting /\ [][NextLighting]_vars

\* the range a lighting parameter is documented to lie in
LightingRange(key) == IF key = "specular_power" THEN <<0, 12800>> ELSE <<0, 100>>

LightingInRange(l) ==
    \A key \in LightingKeys :
        l[key] >= LightingRange(key)[1] /\ l[key] <= LightingRange(key)[2]

UserFromDict(d) ==
    /\ LET r == FromDict("Theme", d) IN
       /\ tret' = TCall("from_dict", "user", VNone, d, r.exc)
       /\ IF r.exc # "none" THEN UNCHANGED <<themes, shared>>
          ELSE /\ themes' = [themes EXCEPT !["user"] = r.th]
               /\ shared' = FALSE
    /\ UNCHANGED <<defaults, registered, lighting>>
    /\ UNCHANGED <<wrapVars, restVars>>

OptionKeys == {"colorbar_orientation", "anti_aliasing", "volume_mapper"}

OptionValues ==
    {VStr("vertical"), VStr("ssaa"), VStr("gpu"), VStr("nonsense"), VNone, VInt(1)}

OptionDicts ==
    {<<Entry("anti_aliasing", VStr("fxaa")), Entry("volume_mapper", VStr("open_gl"))>>,
     <<Entry("colorbar_orientation", VStr("vertical")), Entry("anti_aliasing", VInt(1))>>,
     <<Entry("volume_mapper", VStr("GPU"))>>}

NextOptions ==
    \/ \E key \in OptionKeys, v \in OptionValues : SetProperty("user", key, v)
    \/ \E d \in OptionDicts : UserFromDict(d)
    \/ \E d \in OptionDicts : UpdateFromDict("user", d)
    \/ \E arg \in {VTheme("user"), VInt(1)} : LoadTheme("global", arg)
    \/ NewTheme("DocumentProTheme")

SpecOptions == InitTheme /\ [][NextOptions]_vars

\* the values the claim allows an option to have
OptionAllowed(key) ==
    CASE key = "colorbar_orientation" -> {"vertical", "horizontal"}
      [] key = "anti_aliasing" -> {"ssaa", "msaa", "fxaa", "None"}
      [] key = "volume_mapper" -> {"fixed_point", "gpu", "open_gl", "smart"}

\* whether the claim allows the option to be assigned the value
OptionAccepts(key, v) ==
    \/ v.t = "str" /\ v.s \in OptionAllowed(key) \ {"None"}
    \/ v.t = "NoneType" /\ key = "anti_aliasing"

AVal(t, items) == [t |-> t, items |-> items]

\* a new vtkAxesActor
ActorInit ==
    [x_label |-> "X", y_label |-> "Y", z_label |-> "Z",
     total_length |-> <<10, 10, 10>>,
     shaft_length |-> <<8, 8, 8>>,
     tip_length |-> <<2, 2, 2>>,
     label_position |-> <<10, 10, 10>>]

\* isinstance(value, Iterable)
IsIterable(v) == v.t \in {"list", "tuple", "str"}

\* AxesActor.labels (getter)
labels(a) == <<a.x_label, a.y_label, a.z_label>>

\* a labels setter that takes three or more items
labels_setter_at_least_three(a, v) ==
    IF ~(v.t \in {"list", "tuple"} /\ Len(v.items) >= 3) THEN Result("ValueError", a)
    ELSE Result("none", [a EXCEPT !.x_label = v.items[1], !.y_label = v.items[2],
                                  !.z_label = v.items[3]])

\* AxesActor.labels.setter
labels_setter(a, v) ==
    IF ~(v.t \in {"list", "tuple"} /\ Len(v.items) = 3) THEN Result("ValueError", a)
    ELSE Result("none", [a EXCEPT !.x_label = v.items[1], !.y_label = v.items[2],
                                  !.z_label = v.items[3]])

\* the three arguments a length setter passes on: length[0], length[1],
\* length[2] of an iterable, which may be too short, or the scalar three times
LengthArgs(v) ==
    IF IsIterable(v)
    THEN IF Len(v.items) < 3 THEN [exc |-> "IndexError", args |-> <<>>]
         ELSE [exc |-> "none", args |-> <<v.items[1], v.items[2], v.items[3]>>]
    ELSE [exc |-> "none", args |-> <<v.items[1], v.items[1], v.items[1]>>]

\* AxesActor.total_length.setter
total_length(a, v) ==
    LET r == LengthArgs(v)
    IN  Result(r.exc, IF r.exc = "none" THEN [a EXCEPT !.total_length = r.args] ELSE a)

\* AxesActor.shaft_length.setter
shaft_length(a, v) ==
    LET r == LengthArgs(v)
    IN  Result(r.exc, IF r.exc = "none" THEN [a EXCEPT !.shaft_length = r.args] ELSE a)

\* a tip_length setter that passes the first item three times
tip_length_first_item(a, v) ==
    LET r == LengthArgs(v)
    IN  Result(r.exc, IF r.exc = "none"
                      THEN [a EXCEPT !.tip_length = <<r.args[1], r.args[1], r.args[1]>>]
                      ELSE a)

\* AxesActor.tip_length.setter
tip_length(a, v) ==
    LET r == LengthArgs(v)
    IN  Result(r.exc, IF r.exc = "none" THEN [a EXCEPT !.tip_length = r.args] ELSE a)

\* AxesActor.label_position.setter
label_position(a, v) ==
    LET r == LengthArgs(v)
    IN  Result(r.exc, IF r.exc = "none" THEN [a EXCEPT !.label_position = r.args] ELSE a)

LengthProperties == {"total_length", "shaft_length", "tip_length", "label_position"}

\* actor.labels = v
SetLabels(v) ==
    /\ LET r == labels_setter(actor, v) IN
       /\ tret' = TCall("labels", "", v, <<>>, r.exc)
       /\ actor' = r.th
    /\ UNCHANGED <<reading_durations, started_at, now, shown, hist, calc>>
    /\ UNCHANGED <<wrapVars, themes, shared, defaults, registered, lighting>>

\* actor.x_label = s, actor.y_label = s or actor.z_label = s
SetLabel(axis, s) ==
    /\ tret' = TCall(axis, "", AVal("str", <<s>>), <<>>, "none")
    /\ actor' = [actor EXCEPT ![axis] = s]
    /\ UNCHANGED <<reading_durations, started_at, now, shown, hist, calc>>
    /\ UNCHANGED <<wrapVars, themes, shared, defaults, registered, lighting>>

\* actor.<property> = v for one of the four lengths
SetLength(property, v) ==
    /\ LET r == CASE property = "total_length" -> total_length(actor, v)
                   [] property = "shaft_length" -> shaft_length(actor, v)
                   [] property = "tip_length" -> tip_length(actor, v)
                   [] property = "label_position" -> label_position(actor, v)
       IN  /\ tret' = TCall(property, "", v, <<>>, r.exc)
           /\ actor' = r.th
    /\ UNCHANGED <<reading_durations, started_at, now, shown, hist, calc>>
    /\ UNCHANGED <<wrapVars, themes, shared, defaults, registered, lighting>>

LabelValues ==
    {AVal("list", <<"a", "b", "c">>), AVal("tuple", <<"U", "V", "W">>),
     AVal("list", <<"a", "b">>), AVal("tuple", <<"a", "b", "c", "d">>),
     AVal("list", <<>>), AVal("str", <<"abc">>), AVal("NoneType", <<>>)}

LengthValues ==
    {AVal("float", <<12>>), AVal("list", <<10, 9, 5>>), AVal("tuple", <<1, 4, 2>>),
     AVal("list", <<1, 2>>)}

InitAxes ==
    /\ actor = ActorInit
    /\ tret = TCall("init", "", AVal("NoneType", <<>>), <<>>, "none")
    /\ reading_durations = <<>> /\ started_at = <<>> /\ now = 0
    /\ shown = <<>> /\ hist = <<>> /\ calc = <<>>
    /\ themes = <<>> /\ shared = FALSE /\ defaults = <<>> /\ registered = <<>>
    /\ lighting = <<>>
    /\ heap = <<>> /\ wrappers = <<>> /\ ret = <<>>

NextAxes ==
    \/ \E v \in LabelValues : SetLabels(v)
    \/ \E axis \in {"x_label", "y_label", "z_label"} : SetLabel(axis, "mine")
    \/ \E property \in LengthProperties, v \in LengthValues : SetLength(property, v)

SpecAxes == InitAxes /\ [][NextAxes]_vars

\* C12: assigning AxesActor.labels a list or tuple of exactly three items sets
\* x_label, y_label and z_label to the items in order, and labels returns them
\* as a 3-tuple; every other value raises ValueError and leaves the three
\* labels unchanged.
C12_LabelsTakesExactlyThree ==
    [][tret'.op = "labels" =>
        LET v == tret'.arg IN
        IF v.t \in {"list", "tuple"} /\ Len(v.items) = 3
        THEN /\ tret'.exc = "none"
             /\ actor'.x_label = v.items[1]
             /\ actor'.y_label = v.items[2]
             /\ actor'.z_label = v.items[3]
             /\ labels(actor') = v.items
        ELSE /\ tret'.exc = "ValueError"
             /\ labels(actor') = labels(actor)]_vars

C12_Witness ==
    /\ tret.op = "labels" /\ tret.arg = AVal("tuple", <<"a", "b", "c", "d">>)
    /\ tret.exc = "ValueError"
    /\ labels(actor) = <<"U", "mine", "W">>

\* C13: assigning a scalar s to total_length, shaft_length, tip_length or
\* label_position sets the three components to s; assigning a three-item
\* sequence sets them to its items in order; the property then reads as the
\* triple assigned.
C13_LengthsTakeScalarOrTriple ==
    [][(tret'.op \in LengthProperties) =>
        LET v == tret'.arg IN
        /\ v.t = "float" =>
              tret'.exc = "none" /\ actor'[tret'.op] = <<v.items[1], v.items[1], v.items[1]>>
        /\ (v.t \in {"list", "tuple"} /\ Len(v.items) = 3) =>
              tret'.exc = "none" /\ actor'[tret'.op] = v.items
        /\ \A p \in LengthProperties \ {tret'.op} : actor'[p] = actor[p]]_vars

C13_Witness ==
    /\ tret.op = "tip_length" /\ tret.arg = AVal("tuple", <<1, 4, 2>>) /\ tret.exc = "none"
    /\ actor.tip_length = <<1, 4, 2>>
    /\ actor.total_length = <<12, 12, 12>>
    /\ actor.shaft_length = <<10, 9, 5>>

(***************************************************************************)
(* The duration extension of the documentation build:                      *)
(* doc/source/duration_extension.py.  A dict is a sequence of entries      *)
(* [key, val] in insertion order; time is counted in ticks of the          *)
(* monotonic clock.                                                        *)
(***************************************************************************)
MaxTime == 2   \* ticks of the monotonic clock the model follows

Docs == {"a", "b"}

\* n_durations of on_build_finished
n_durations == 100

Keys(d) == {d[i].key : i \in 1..Len(d)}

\* d[k]
Get(d, k) == d[CHOOSE i \in 1..Len(d) : d[i].key = k].val

\* d[k] = v: a key the dict holds keeps its place
SetItem(d, k, v) ==
    IF k \in Keys(d)
    THEN [i \in 1..Len(d) |-> IF d[i].key = k THEN Entry(k, v) ELSE d[i]]
    ELSE Append(d, Entry(k, v))

\* d.pop(k, None)
Pop(d, k) == SelectSeq(d, LAMBDA e : e.key # k)

\* the dict as a mapping, which is what == of two dicts compares
AsMap(d) == [k \in Keys(d) |-> Get(d, k)]

\* a merge that takes every duration of otherdata, whatever docnames holds
RECURSIVE MergeAll(_, _, _)
MergeAll(rd, docnames, other) ==
    IF Len(other) = 0 THEN rd
    ELSE MergeAll(SetItem(rd, Head(other).key, Head(other).val), docnames, Tail(other))

\* DurationDomain.merge_domaindata: the loop over otherdata's durations
RECURSIVE Merge(_, _, _)
Merge(rd, docnames, other) ==
    IF Len(other) = 0 THEN rd
    ELSE Merge(IF Head(other).key \in docnames
               THEN SetItem(rd, Head(other).key, Head(other).val)
               ELSE rd,
               docnames, Tail(other))

\* sorted(items, key=itemgetter(1), reverse=True): stable, the longest first
RECURSIVE Sorted(_)
Sorted(d) ==
    IF Len(d) = 0 THEN <<>>
    ELSE LET rest == Sorted(SubSeq(d, 1, Len(d) - 1))
             e == d[Len(d)]
             before == SelectSeq(rest, LAMBDA x : x.val >= e.val)
             after == SelectSeq(rest, LAMBDA x : x.val < e.val)
         IN  before \o <<e>> \o after

\* islice(durations, n)
Slice(q, n) == SubSeq(q, 1, IF Len(q) < n THEN Len(q) ELSE n)

\* the event that came last: its name, the document (env.docname), the
\* docnames and the otherdata of a merge
Event(op, doc, docnames, other) ==
    [op |-> op, target |-> doc, arg |-> docnames, d |-> other, exc |-> "none"]

themeIdle ==
    /\ themes = <<>> /\ shared = FALSE /\ defaults = <<>> /\ registered = <<>>
    /\ lighting = <<>> /\ actor = <<>> /\ calc = <<>>
    /\ heap = <<>> /\ wrappers = <<>> /\ ret = <<>>

sphinxIdle ==
    UNCHANGED <<wrapVars, themes, shared, defaults, registered, lighting, actor, calc>>

\* an on_builder_inited whose clear() leaves the durations
BuilderInitedKeepsDurations ==
    /\ ~hist.building
    /\ reading_durations' = reading_durations
    /\ shown' = <<>>
    /\ hist' = [hist EXCEPT !.building = TRUE, !.noted = {},
                            !.last_build = Keys(reading_durations)]
    /\ tret' = Event("builder-inited", "", {}, <<>>)
    /\ UNCHANGED <<started_at, now>>
    /\ sphinxIdle

\* on_builder_inited: domain.clear()
BuilderInited ==
    /\ ~hist.building
    /\ reading_durations' = <<>>
    /\ shown' = <<>>
    /\ hist' = [hist EXCEPT !.building = TRUE, !.noted = {},
                            !.last_build = Keys(reading_durations)]
    /\ tret' = Event("builder-inited", "", {}, <<>>)
    /\ UNCHANGED <<started_at, now>>
    /\ sphinxIdle

\* time passes
Tick ==
    /\ now < MaxTime
    /\ now' = now + 1
    /\ tret' = Event("tick", "", {}, <<>>)
    /\ UNCHANGED <<reading_durations, started_at, shown, hist>>
    /\ sphinxIdle

\* on_source_read(app, docname, content)
SourceRead(doc) ==
    /\ hist.building
    /\ doc \notin DOMAIN hist.source_read_at
    /\ started_at' = <<now>>
    /\ hist' = [hist EXCEPT !.source_read_at = (doc :> now) @@ @]
    /\ tret' = Event("source-read", doc, {}, <<>>)
    /\ UNCHANGED <<reading_durations, now, shown>>
    /\ sphinxIdle

\* on_doctree_read(app, doctree) while env.docname is doc, whose source was read
DoctreeRead(doc) ==
    /\ doc \in DOMAIN hist.source_read_at
    /\ reading_durations' = SetItem(reading_durations, doc, now - started_at[1])
    /\ hist' = [hist EXCEPT
                  !.source_read_at = [k \in DOMAIN @ \ {doc} |-> @[k]],
                  !.noted = @ \cup {doc}]
    /\ tret' = Event("doctree-read", doc, {}, <<>>)
    /\ UNCHANGED <<started_at, now, shown>>
    /\ sphinxIdle

\* DurationDomain.clear_doc(docname)
ClearDoc(doc) ==
    /\ hist.building
    /\ reading_durations' = Pop(reading_durations, doc)
    /\ hist' = [hist EXCEPT !.noted = @ \ {doc}]
    /\ tret' = Event("clear_doc", doc, {}, <<>>)
    /\ UNCHANGED <<started_at, now, shown>>
    /\ sphinxIdle

\* DurationDomain.merge_domaindata(docnames, otherdata)
MergeDomaindata(docnames, other) ==
    /\ hist.building
    /\ reading_durations' = Merge(reading_durations, docnames, other)
    /\ hist' = [hist EXCEPT !.noted = @ \cup (docnames \cap Keys(other))]
    /\ tret' = Event("merge_domaindata", "", docnames, other)
    /\ UNCHANGED <<started_at, now, shown>>
    /\ sphinxIdle

\* on_build_finished: the lines logged, int(d) and docname, none when the
\* domain holds no duration
BuildFinished ==
    /\ hist.building
    /\ shown' = IF Len(reading_durations) = 0 THEN <<>>
                 ELSE Slice(Sorted(reading_durations), n_durations)
    /\ hist' = [hist EXCEPT !.building = FALSE,
                            !.source_read_at = [k \in {} |-> 0]]
    /\ tret' = Event("build-finished", "", {}, <<>>)
    /\ UNCHANGED <<reading_durations, started_at, now>>
    /\ sphinxIdle

\* the durations a worker process hands back
OtherDatas == {<<>>, <<Entry("a", 2)>>, <<Entry("b", 1), Entry("a", 0)>>}

\* the durations the environment of the last build was saved with
SavedDurations == {<<>>, <<Entry("a", 1)>>, <<Entry("b", 2), Entry("a", 1)>>}

\* the environment is loaded and no build has begun; hist follows what the
\* build has done: whether it is under way, the documents the domain held
\* when it began, the time of each pending source-read, and the documents
\* noted or merged in since and not cleared
InitDuration ==
    /\ reading_durations \in SavedDurations
    /\ started_at = <<>>
    /\ now = 0
    /\ shown = <<>>
    /\ hist = [building |-> FALSE, last_build |-> {},
               source_read_at |-> [k \in {} |-> 0], noted |-> {}]
    /\ tret = Event("load", "", {}, <<>>)
    /\ themeIdle

NextDuration ==
    \/ BuilderInited
    \/ Tick
    \/ \E doc \in Docs : SourceRead(doc)
    \/ \E doc \in Docs : DoctreeRead(doc)
    \/ \E doc \in Docs : ClearDoc(doc)
    \/ \E docnames \in SUBSET Docs, other \in OtherDatas : MergeDomaindata(docnames, other)
    \/ BuildFinished

SpecDuration == InitDuration /\ [][NextDuration]_vars

\* a parallel build: the documents are read by worker processes and the
\* main process merges what they hand back
NextMerge ==
    \/ BuilderInited
    \/ \E doc \in Docs : ClearDoc(doc)
    \/ \E docnames \in SUBSET Docs, other \in OtherDatas : MergeDomaindata(docnames, other)
    \/ BuildFinished

SpecMerge == InitDuration /\ [][NextMerge]_vars

\* C14: builder-inited leaves the domain without reading durations, and the
\* ranking logged at build-finished holds only documents whose duration was
\* noted or merged in during this build and not cleared since; it is empty
\* when there is none.
C14_BuilderInitedClearsLastBuild ==
    [][/\ tret'.op = "builder-inited" => reading_durations' = <<>>
       /\ tret'.op = "build-finished" =>
             /\ Keys(shown') \subseteq hist.noted
             /\ hist.noted = {} => shown' = <<>>]_vars

\* a build that logged one document while the last build had left another
C14_Witness ==
    /\ tret.op = "build-finished"
    /\ Len(shown) = 1
    /\ hist.last_build \ Keys(shown) # {}

\* C15: the duration noted at a document's doctree-read is the time since
\* the source-read of that same document, and is not negative.
C15_DurationIsOwnReadingTime ==
    [][tret'.op = "doctree-read" =>
         /\ Get(reading_durations', tret'.target) = now - hist.source_read_at[tret'.target]
         /\ Get(reading_durations', tret'.target) >= 0]_vars

\* C19: merge_domaindata gives every document of docnames that otherdata
\* has a duration for otherdata's duration and leaves every other entry;
\* two merges over disjoint docnames give the same durations in either order.
C19_MergeTakesNamedDocuments ==
    [][tret'.op = "merge_domaindata" =>
         /\ \A doc \in Docs :
               IF doc \in tret'.arg \cap Keys(tret'.d)
               THEN /\ doc \in Keys(reading_durations')
                    /\ Get(reading_durations', doc) = Get(tret'.d, doc)
               ELSE /\ doc \in Keys(reading_durations') <=> doc \in Keys(reading_durations)
                    /\ doc \in Keys(reading_durations) =>
                          Get(reading_durations', doc) = Get(reading_durations, doc)
         /\ \A docnames \in SUBSET (Docs \ tret'.arg), other \in OtherDatas :
               AsMap(Merge(reading_durations', docnames, other))
                 = AsMap(Merge(Merge(reading_durations, docnames, other), tret'.arg, tret'.d))]_vars

\* a merge that took one of otherdata's durations, passed over another of
\* them, and left a document the domain already held
C19_Witness ==
    /\ tret.op = "merge_domaindata"
    /\ tret.arg \cap Keys(tret.d) # {}
    /\ Keys(tret.d) \ tret.arg # {}
    /\ Keys(reading_durations) \ tret.arg # {}

(***************************************************************************)
(* Functions the tests under tests/ call.  calc holds the arguments of a   *)
(* call and, once the call is made, what it returned.                      *)
(***************************************************************************)
\* the state of the other parts, which these functions never touch
calcIdle ==
    /\ themes = <<>> /\ shared = FALSE /\ defaults = <<>> /\ registered = <<>>
    /\ lighting = <<>> /\ actor = <<>> /\ tret = <<>>
    /\ heap = <<>> /\ wrappers = <<>> /\ ret = <<>>
    /\ reading_durations = <<>> /\ started_at = <<>> /\ now = 0
    /\ shown = <<>> /\ hist = <<>>

calcOnly ==
    UNCHANGED <<wrapVars, themes, shared, defaults, registered, tret, lighting,
                actor, reading_durations, started_at, now, shown, hist>>

(***************************************************************************)
(* DataSetFilters.pack_labels, as tests/core/test_dataset_filters.py uses  *)
(* it.  A mesh is the dict of its arrays and the name of the active one.   *)
(***************************************************************************)
MaxLabels == 3   \* length of the label arrays drawn

LabelIds == {0, 2, 3}

\* the fixture labeled_image
labeled_image == <<0, 3, 3, 3, 3, 0, 2, 2>>

\* numbering the labels in the order they first appear
RECURSIVE PackedByAppearance(_)
PackedByAppearance(a) ==
    IF Len(a) = 0 THEN <<>>
    ELSE LET front == SubSeq(a, 1, Len(a) - 1)
             seen == {front[i] : i \in 1..Len(front)}
             done == PackedByAppearance(front)
         IN  Append(done,
                    IF a[Len(a)] \in seen
                    THEN done[CHOOSE i \in 1..Len(front) : front[i] = a[Len(a)]]
                    ELSE Cardinality(seen))

\* the packed array: each label replaced by its index among the sorted
\* distinct labels
Packed(a) ==
    LET unique == {a[i] : i \in 1..Len(a)}
    IN  [i \in 1..Len(a) |-> Cardinality({u \in unique : u < a[i]})]

\* mesh.pack_labels(output_scalars=...) on the active scalars: a copy of the
\* mesh with the packed array added and made active
pack_labels(mesh, output_scalars) ==
    IF output_scalars.t \notin {"NoneType", "str"}
    THEN [exc |-> "TypeError", arrays |-> <<>>, active |-> ""]
    ELSE LET name == IF output_scalars.t = "NoneType" THEN "packed_labels"
                     ELSE output_scalars.s
         IN  [exc |-> "none",
              arrays |-> SetItem(mesh.arrays, name, Packed(Get(mesh.arrays, mesh.active))),
              active |-> name]

OutputScalars == {VNone, VStr("foo"), VInt(1)}

LabelArrays ==
    {labeled_image} \cup UNION {[1..n -> LabelIds] : n \in 1..MaxLabels}

\* an image with a 'labels' array, active, and a 'misc' array
InitLabels ==
    /\ \E a \in LabelArrays :
          calc = [mesh |-> [arrays |-> <<Entry("labels", a),
                                         Entry("misc", [i \in 1..Len(a) |-> 0])>>,
                            active |-> "labels"],
                  called |-> FALSE, output_scalars |-> VNone,
                  out |-> [exc |-> "none", arrays |-> <<>>, active |-> ""]]
    /\ calcIdle

PackLabels(output_scalars) ==
    /\ ~calc.called
    /\ calc' = [calc EXCEPT !.called = TRUE,
                            !.output_scalars = output_scalars,
                            !.out = pack_labels(calc.mesh, output_scalars)]
    /\ calcOnly

NextLabels == \E output_scalars \in OutputScalars : PackLabels(output_scalars)

SpecLabels == InitLabels /\ [][NextLabels]_vars

\* C18: the array pack_labels stores under 'packed_labels', or under the
\* output_scalars name, holds exactly 0..k-1 for the k distinct labels and
\* keeps their order, [0,3,3,3,3,0,2,2] giving [0,2,2,2,2,0,1,1]; the
\* 'labels' array is still among the arrays of the output.
C18_PackLabelsContiguousInOrder ==
    (calc.called /\ calc.output_scalars.t \in {"NoneType", "str"}) =>
        LET labels_in == Get(calc.mesh.arrays, "labels")
            unique == {labels_in[i] : i \in 1..Len(labels_in)}
            name == calc.out.active
            packed == Get(calc.out.arrays, name)
        IN  /\ calc.out.exc = "none"
            /\ name = IF calc.output_scalars = VNone THEN "packed_labels"
                      ELSE calc.output_scalars.s
            /\ Len(packed) = Len(labels_in)
            /\ {packed[i] : i \in 1..Len(packed)} = 0..(Cardinality(unique) - 1)
            /\ \A i, j \in 1..Len(packed) :
                  labels_in[i] < labels_in[j] <=> packed[i] < packed[j]
            /\ labels_in = labeled_image => packed = <<0, 2, 2, 2, 2, 0, 1, 1>>
            /\ "labels" \in Keys(calc.out.arrays)
            /\ Get(calc.out.arrays, "labels") = labels_in

\* the labels of the fixture packed under the name 'foo'
C18_Witness ==
    /\ calc.called
    /\ calc.out.exc = "none"
    /\ calc.out.active = "foo"
    /\ Get(calc.mesh.arrays, "labels") = labeled_image
    /\ Get(calc.out.arrays, "foo") = <<0, 2, 2, 2, 2, 0, 1, 1>>

(***************************************************************************)
(* pyvista.Color, as tests/plotting/test_colors.py uses it.  A channel     *)
(* argument is an int, a float in hundredths, a string of hexadecimal      *)
(* digits, or None; a color is a name, a tuple of three or four ints, or   *)
(* None.                                                                   *)
(***************************************************************************)
ChNone == [t |-> "NoneType", n |-> <<>>]
ChInt(i) == [t |-> "int", n |-> <<i>>]
ChFloat(h) == [t |-> "float", n |-> <<h>>]
ChHex(digits) == [t |-> "str", n |-> digits]

ColorNone == [t |-> "NoneType", s |-> "", n |-> <<>>]
ColorName(s) == [t |-> "str", s |-> s, n |-> <<>>]
ColorTuple(q) == [t |-> "tuple", s |-> "", n |-> q]

\* the named colors the model knows; 'lightblue' is the color of the theme
NamedColors == [blue |-> <<0, 0, 255>>, lightblue |-> <<173, 216, 230>>]

\* round(x / 100) of Python: halves go to the even neighbour
RoundHundredths(x) ==
    LET q == x \div 100
        r == x % 100
    IN  IF r > 50 \/ (r = 50 /\ q % 2 = 1) THEN q + 1 ELSE q

\* Color.convert_color_channel: the channel as an int of 0..255, or -1 where
\* it raises ValueError
convert_color_channel(val) ==
    LET i == CASE val.t = "str" ->
                    IF Len(val.n) = 2 THEN 16 * val.n[1] + val.n[2] ELSE -1
               [] val.t = "float" -> RoundHundredths(255 * val.n[1])
               [] val.t = "int" -> val.n[1]
               [] OTHER -> -1
    IN  IF i >= 0 /\ i <= 255 THEN i ELSE -1

\* a Color whose opacity argument gives way to the alpha of the color
ColorKeepsAlpha(color, opacity, default_opacity) ==
    LET c == IF color.t = "NoneType" THEN ColorName("lightblue") ELSE color
        rgba == IF c.t = "str" THEN NamedColors[c.s] ELSE c.n
        fallback == IF opacity.t = "NoneType" THEN convert_color_channel(default_opacity)
                    ELSE convert_color_channel(opacity)
        a == IF Len(rgba) = 4 THEN rgba[4] ELSE fallback
    IN  IF a = -1 THEN [exc |-> "ValueError", rgba |-> <<>>]
        ELSE [exc |-> "none", rgba |-> <<rgba[1], rgba[2], rgba[3], a>>]

\* Color(color, opacity, default_opacity=...): the opacity starts as
\* default_opacity, a color of four channels sets it, and an opacity that is
\* not None overwrites it
Color(color, opacity, default_opacity) ==
    LET c == IF color.t = "NoneType" THEN ColorName("lightblue") ELSE color
        rgba == IF c.t = "str" THEN NamedColors[c.s] ELSE c.n
        a0 == convert_color_channel(default_opacity)
        a1 == IF Len(rgba) = 4 THEN rgba[4] ELSE a0
        a2 == IF opacity.t = "NoneType" THEN a1 ELSE convert_color_channel(opacity)
    IN  IF a0 = -1 \/ a2 = -1 THEN [exc |-> "ValueError", rgba |-> <<>>]
        ELSE [exc |-> "none", rgba |-> <<rgba[1], rgba[2], rgba[3], a2>>]

\* the opacities of the tests and the int each stands for: i_opacity,
\* f_opacity and h_opacity of test_color, and the 0.5 of test_color_opacity
TestOpacities ==
    {<<ChInt(153), 153>>, <<ChFloat(60), 153>>, <<ChHex(<<9, 9>>), 153>>,
     <<ChFloat(50), 128>>}

Opacities == {ChNone, ChInt(275)} \cup {p[1] : p \in TestOpacities}

DefaultOpacities == {ChInt(255)} \cup {p[1] : p \in TestOpacities}

Colors ==
    {ColorNone, ColorName("blue"), ColorTuple(<<0, 0, 255>>),
     ColorTuple(<<0, 0, 255, 255>>), ColorTuple(<<0, 0, 255, 64>>)}

InitColor ==
    /\ \E color \in Colors, opacity \in Opacities, default_opacity \in DefaultOpacities :
          calc = [color |-> color, opacity |-> opacity,
                  default_opacity |-> default_opacity,
                  called |-> FALSE, out |-> [exc |-> "none", rgba |-> <<>>]]
    /\ calcIdle

NewColor ==
    /\ ~calc.called
    /\ calc' = [calc EXCEPT !.called = TRUE,
                            !.out = Color(calc.color, calc.opacity, calc.default_opacity)]
    /\ calcOnly

NextColor == NewColor

SpecColor == InitColor /\ [][NextColor]_vars

\* C17: Color(c, opacity) has the opacity given, whether or not c has an
\* alpha channel; Color(c, default_opacity=o) has o when c has no alpha
\* channel and the alpha of c when it has one.
C17_OpacityPrecedence ==
    calc.called =>
        /\ \A p \in TestOpacities :
              calc.opacity = p[1] => calc.out.exc = "none" /\ calc.out.rgba[4] = p[2]
        /\ (calc.opacity = ChNone /\ Len(calc.color.n) = 4) =>
              calc.out.exc = "none" /\ calc.out.rgba[4] = calc.color.n[4]
        /\ \A p \in TestOpacities :
              (calc.opacity = ChNone /\ Len(calc.color.n) # 4 /\ calc.default_opacity = p[1]) =>
                 calc.out.exc = "none" /\ calc.out.rgba[4] = p[2]

\* a color with an alpha of its own built with another opacity
C17_Witness ==
    /\ calc.called
    /\ calc.color = ColorTuple(<<0, 0, 255, 64>>)
    /\ calc.opacity = ChFloat(60)
    /\ calc.out.rgba = <<0, 0, 255, 153>>

(***************************************************************************)
(* Saving a PartitionedDataSetCollection and reading the file back, as     *)
(* tests/test_composite_writer_reader.py does.  A file is its extension,   *)
(* the root element written, and per partitioned dataset the whole extent  *)
(* of each piece written.                                                  *)
(***************************************************************************)
MaxDatasets == 2     \* partitioned datasets of a collection
MaxPartitions == 2   \* partitions of a partitioned dataset

\* pv.Wavelet(extent=...) copied into a pv.ImageData
ImageData(extent) == [class |-> "vtkImageData", extent |-> extent]

PartitionedDataSet(partitions) ==
    [class |-> "vtkPartitionedDataSet", partitions |-> partitions]

PartitionedDataSetCollection(datasets) ==
    [class |-> "vtkPartitionedDataSetCollection", datasets |-> datasets]

\* GetNumberOfCells of an image
GetNumberOfCells(image) ==
    LET e == image.extent
    IN  (e[2] - e[1]) * (e[4] - e[3]) * (e[6] - e[5])

NoFile == [ext |-> "", root |-> "", datasets |-> <<>>]

NoObject == [class |-> "", datasets |-> <<>>]

\* the writer and the reader chosen by the extension of the file name
Writers == [vtcd |-> "vtkPartitionedDataSetCollection", vtpd |-> "vtkPartitionedDataSet"]

\* c.save(fname): the writer of the extension writes the root element and,
\* per partitioned dataset, the pieces in order
Save(c, ext) ==
    IF Writers[ext] # c.class THEN NoFile
    ELSE [ext |-> ext, root |-> c.class,
          datasets |-> [i \in 1..Len(c.datasets) |->
                          [j \in 1..Len(c.datasets[i].partitions) |->
                             c.datasets[i].partitions[j].extent]]]

\* a reader that hands back every piece in one partitioned dataset
ReadFlattened(file) ==
    IF file.ext \notin DOMAIN Writers \/ Writers[file.ext] # file.root THEN NoObject
    ELSE PartitionedDataSetCollection(
             <<PartitionedDataSet(
                 [k \in 1..Len(file.datasets) * MaxPartitions |->
                    ImageData(file.datasets[1][1])])>>)

\* pv.read(fname): the reader of the extension builds the collection, one
\* partitioned dataset per entry and one image per piece
Read(file) ==
    IF file.ext \notin DOMAIN Writers \/ Writers[file.ext] # file.root THEN NoObject
    ELSE PartitionedDataSetCollection(
             [i \in 1..Len(file.datasets) |->
                PartitionedDataSet([j \in 1..Len(file.datasets[i]) |->
                                      ImageData(file.datasets[i][j])])])

\* the two wavelets of the test and a smaller image
Extents == {<<0, 10, 0, 10, 0, 5>>, <<0, 1, 0, 2, 0, 3>>}

Partitioned ==
    {PartitionedDataSet(q) :
        q \in UNION {[1..n -> {ImageData(e) : e \in Extents}] : n \in 1..MaxPartitions}}

Collections ==
    {PartitionedDataSetCollection(q) :
        q \in UNION {[1..n -> Partitioned] : n \in 1..MaxDatasets}}

InitCollection ==
    /\ \E c \in Collections : calc = [c |-> c, file |-> NoFile, read |-> FALSE, o |-> NoObject]
    /\ calcIdle

SaveCollection ==
    /\ calc.file = NoFile
    /\ calc' = [calc EXCEPT !.file = Save(calc.c, "vtcd")]
    /\ calcOnly

ReadCollection ==
    /\ calc.file # NoFile
    /\ ~calc.read
    /\ calc' = [calc EXCEPT !.read = TRUE, !.o = Read(calc.file)]
    /\ calcOnly

NextCollection == SaveCollection \/ ReadCollection

SpecCollection == InitCollection /\ [][NextCollection]_vars

====
